---- MODULE Spec2Model ----
(***************************************************************************)
(* testsnake: a go/analysis pass that reports sub-test names passed to     *)
(* t.Run, b.Run and f.Run of package testing which are not snake_case.     *)
(*                                                                         *)
(* Strings are sequences of one-character strings (runes).  A pass is a    *)
(* list of files; the syntax tree of a file is revealed node by node, in   *)
(* document order, to the callback that run hands to ast.Inspect.          *)
(***************************************************************************)
EXTENDS Integers, Sequences, FiniteSets, TLC

(***************************************************************************)
(* Bounds of the model.                                                    *)
(***************************************************************************)
MaxLen == 4      \* longest name handed to the validator on its own
MaxFiles == 2    \* files of one pass
MaxNodes == 2    \* call expressions revealed to ast.Inspect in one pass
MaxRows == 2     \* elements of a table literal
MaxStmts == 2    \* assignment / range statements that mention one object

VARIABLES
    input,      \* validator harness: the string under test
    verdict,    \* validator harness: <<>> before the call, <<b>> after
    pc,         \* where run is: "files" at the head of the loop over
                \* pass.Files, "walk" in ast.Inspect between two nodes,
                \* "visit" when the callback has just run on cur, "done"
    nfiles,     \* len(pass.Files)
    fi,         \* number of files the outer loop has finished
    fname,      \* pass.Fset.File(file.Pos()).Name() of the current file
    visited,    \* nodes ast.Inspect has walked past so far in this pass
    cur,        \* <<>> or <<node>>: the node ast.Inspect is at
    last,       \* depth of the node before it, 0 at the start of a file
    called,     \* whether the callback was invoked on cur
    ret,        \* what the callback returned for cur
    prune,      \* depth of a node whose children ast.Inspect skips, 0 if none
    diags,      \* what pass.Reportf has received, in order
    result      \* <<>> while running, <<[val, err]>> once run has returned

vars == <<input, verdict, pc, nfiles, fi, fname, visited, cur, last, called,
          ret, prune, diags, result>>

(***************************************************************************)
(* Runes and strings.                                                      *)
(***************************************************************************)
DQ == "\""      \* the double quote
BS == "\\"      \* the backslash
BQ == "BQ"      \* the back quote, which a TLA+ string cannot hold

AsciiLower == {"a", "b", "c", "d", "e", "f", "g", "h", "i", "j", "k", "l",
               "m", "n", "o", "p", "q", "r", "s", "t", "u", "v", "w", "x",
               "y", "z"}
AsciiDigit == {"0", "1", "2", "3", "4", "5", "6", "7", "8", "9"}
AsciiUpper == {"A", "B", "S", "Z"}
OtherUpper == {"É"}     \* upper-case outside ASCII
OtherLower == {"é"}     \* lower-case outside ASCII

\* unicode.IsUpper
IsUpper(ch) == ch \in AsciiUpper \cup OtherUpper

Rep(ch, k) == [i \in 1..k |-> ch]

HasSuffix(s, suffix) ==
    /\ Len(s) >= Len(suffix)
    /\ SubSeq(s, Len(s) - Len(suffix) + 1, Len(s)) = suffix

\* strings.Trim(s, cutset): all leading and trailing runes of cutset removed,
\* which leaves s from its first to its last rune outside cutset
Between(s, keep) ==
    IF keep = {} THEN <<>>
    ELSE SubSeq(s, CHOOSE i \in keep : \A j \in keep : i <= j,
                   CHOOSE i \in keep : \A j \in keep : i >= j)

Trim(s, cutset) == Between(s, {i \in 1..Len(s) : s[i] \notin cutset})

(***************************************************************************)
(* isValidSnakeCase.  The pattern ^[a-z0-9]+(_[a-z0-9]+)*$ is run as the   *)
(* automaton it compiles to: state 0 expects the first rune of a segment  *)
(* at the start, 1 is inside a segment (accepting), 2 has just read an     *)
(* underscore, 3 is the dead state.                                        *)
(***************************************************************************)
PatternStep(q, ch) ==
    CASE q \in {0, 2} -> IF ch \in AsciiLower \cup AsciiDigit THEN 1 ELSE 3
      [] q = 1 -> IF ch \in AsciiLower \cup AsciiDigit THEN 1
                  ELSE IF ch = "_" THEN 2 ELSE 3
      [] OTHER -> 3

\* the state the runes s[lo..hi] lead to from state q (the run is split
\* in halves to keep the evaluation shallow)
RECURSIVE PatternRun(_, _, _, _)
PatternRun(q, s, lo, hi) ==
    IF lo > hi THEN q
    ELSE IF lo = hi THEN PatternStep(q, s[lo])
    ELSE LET mid == (lo + hi) \div 2
             half == PatternRun(q, s, lo, mid)
         IN IF half = 3 THEN 3 ELSE PatternRun(half, s, mid + 1, hi)

\* a variant: the pattern without its end anchor
MatchStringUnanchored(s) ==
    \E i \in 1..Len(s) : \E j \in i..Len(s) : PatternRun(0, s, i, j) = 1

\* snakeCasePattern.MatchString
MatchString(s) == PatternRun(0, s, 1, Len(s)) = 1

isValidSnakeCase(s) ==
    IF s = <<>> THEN FALSE
    ELSE IF \E i \in 1..Len(s) : IsUpper(s[i]) THEN FALSE
    ELSE MatchString(s)

(***************************************************************************)
(* The syntax tree and the type information of a pass, as far as run reads *)
(* them.  Every expression carries                                        *)
(*   kind  the dynamic type of the ast.Expr,                               *)
(*   tv    pass.TypesInfo.Types[expr].Value: <<>> when there is no         *)
(*         constant value, <<s>> for the constant string s,                *)
(*   pos   expr.Pos().                                                     *)
(* An identifier also carries obj, pass.TypesInfo.ObjectOf(ident).  An      *)
(* object of kind Var lists the statements of the pass that mention it,    *)
(* in the order ast.Inspect meets them, each with the index of its file in *)
(* pass.Files: assigns are the assignment statements with the variable on  *)
(* the left (rhs is <<>> when the statement has no right-hand side at the  *)
(* variable's index, <<e>> otherwise), ranges are the range statements     *)
(* with the variable as key or value.  Statements of one list are not      *)
(* nested in one another.                                                  *)
(***************************************************************************)
NoPos == 0

Lit(text, content, p) ==
    [kind |-> "BasicLit", value |-> text, tv |-> <<content>>, pos |-> p]
IdentE(nm, o, tvv, p) ==
    [kind |-> "Ident", name |-> nm, obj |-> o, tv |-> tvv, pos |-> p]
SelE(xe, sl, tvv, p) ==
    [kind |-> "SelectorExpr", x |-> xe, sel |-> sl, tv |-> tvv, pos |-> p]
OtherE(kd, tvv, p) == [kind |-> kd, tv |-> tvv, pos |-> p]
CompE(es, p) == [kind |-> "CompositeLit", elts |-> es, tv |-> <<>>, pos |-> p]
KV(ke, ve, p) == [kind |-> "KeyValueExpr", key |-> ke, value |-> ve, pos |-> p]

NilObj == [okind |-> "nil"]
PkgObj == [okind |-> "PkgName"]
FuncObj == [okind |-> "Func"]
ConstObj(ck, v) == [okind |-> "Const", ckind |-> ck, val |-> v]
VarObj(as, rs) == [okind |-> "Var", assigns |-> as, ranges |-> rs]

Assign(f, r) == [file |-> f, rhs |-> r]
Range(f, b, xe, c) == [file |-> f, bind |-> b, x |-> xe, contains |-> c]

(***************************************************************************)
(* constant.Value.String() of a string constant: strconv.Quote of the      *)
(* value, cut to maxLen - 3 runes and "..." when longer than maxLen runes. *)
(***************************************************************************)
maxLen == 72

\* the runes s[lo..hi], escaped (split in halves to keep the evaluation
\* shallow)
RECURSIVE Escape(_, _, _)
Escape(s, lo, hi) ==
    IF lo > hi THEN <<>>
    ELSE IF lo = hi
    THEN (IF s[lo] \in {DQ, BS} THEN <<BS, s[lo]>>
          ELSE IF s[lo] = "\n" THEN <<BS, "n">>
          ELSE <<s[lo]>>)
    ELSE Escape(s, lo, (lo + hi) \div 2) \o Escape(s, (lo + hi) \div 2 + 1, hi)

\* strconv.Quote
Quote(s) == <<DQ>> \o Escape(s, 1, Len(s)) \o <<DQ>>

Shorten(q) ==
    IF Len(q) > maxLen THEN SubSeq(q, 1, maxLen - 3) \o <<".", ".", ".">>
    ELSE q

ConstString(s) == Shorten(Quote(s))

(***************************************************************************)
(* findVarDecl.  The callback returns false at a match, which keeps        *)
(* ast.Inspect out of that statement's children and lets the walk go on:   *)
(* a later literal assignment of the same file overwrites result.  The     *)
(* loop over pass.Files stops after the first file that left a non-empty   *)
(* result.                                                                 *)
(***************************************************************************)
RECURSIVE LastLiteral(_, _, _)
LastLiteral(as, f, acc) ==
    IF as = <<>> THEN acc
    ELSE LET a == Head(as) IN
         IF a.file = f /\ a.rhs # <<>> /\ a.rhs[1].kind = "BasicLit"
         THEN LastLiteral(Tail(as), f, Trim(a.rhs[1].value, {DQ}))
         ELSE LastLiteral(Tail(as), f, acc)

RECURSIVE findVarDeclFrom(_, _, _)
findVarDeclFrom(as, f, acc) ==
    IF f > nfiles THEN acc
    ELSE LET r == LastLiteral(as, f, acc) IN
         IF r # <<>> THEN r ELSE findVarDeclFrom(as, f + 1, r)

findVarDecl(ident) ==
    IF ident.obj.okind = "nil" THEN <<>>
    ELSE IF ident.obj.okind # "Var" THEN <<>>   \* no assignment statement names it
    ELSE findVarDeclFrom(ident.obj.assigns, 1, <<>>)

(***************************************************************************)
(* eval and strVal.  A result is [val, ok].                                *)
(***************************************************************************)
Unresolved == [val |-> <<>>, ok |-> FALSE]
Resolved(v) == [val |-> v, ok |-> TRUE]

\* lines 159-161: a declaration was found if decl is not ""
resolvedIfSet(decl) == IF decl # <<>> THEN Resolved(decl) ELSE Unresolved

eval(expr) ==
    IF expr.kind = "BasicLit" THEN Resolved(Trim(expr.value, {DQ}))
    ELSE IF expr.tv # <<>> THEN Resolved(Trim(ConstString(expr.tv[1]), {DQ}))
    ELSE IF expr.kind = "SelectorExpr" THEN Unresolved
    ELSE IF expr.kind = "Ident" /\ expr.obj.okind # "nil"
    THEN IF expr.obj.okind = "Const" /\ expr.obj.ckind = "String"
         THEN Resolved(Trim(ConstString(expr.obj.val), {DQ}))
         ELSE IF expr.obj.okind = "Var"
         THEN resolvedIfSet(findVarDecl(expr))
         ELSE Unresolved
    ELSE Unresolved

valueOr(r) == IF r.ok THEN r.val ELSE <<>>

strVal(expr) == valueOr(eval(expr))

\* fieldName: "" for a key that is no identifier
fieldName(key) == IF key.kind = "Ident" THEN key.name ELSE ""

(***************************************************************************)
(* extractFieldValueWithPos: the first key/value element of the row whose  *)
(* key is targetField and whose value eval resolves.                       *)
(***************************************************************************)
NoField == [value |-> <<>>, pos |-> NoPos]

RECURSIVE extractFieldValueFrom(_, _)
\* lines 177-179, with r what eval made of the element's value
fieldOr(r, p, elts, targetField) ==
    IF r.ok THEN [value |-> r.val, pos |-> p]
    ELSE extractFieldValueFrom(elts, targetField)

extractFieldValueFrom(elts, targetField) ==
    IF elts = <<>> THEN NoField
    ELSE IF Head(elts).kind = "KeyValueExpr"
            /\ fieldName(Head(elts).key) = targetField
    THEN fieldOr(eval(Head(elts).value), Head(elts).value.pos, Tail(elts),
                 targetField)
    ELSE extractFieldValueFrom(Tail(elts), targetField)

\* a variant: the position of the row instead of kv.Value.Pos()
extractFieldValueWithPosAtRow(comp, targetField) ==
    LET r == extractFieldValueFrom(comp.elts, targetField) IN
    IF r.pos = NoPos THEN r ELSE [r EXCEPT !.pos = comp.pos]

extractFieldValueWithPos(comp, targetField) ==
    extractFieldValueFrom(comp.elts, targetField)

(***************************************************************************)
(* extractValuesWithPosFromRange.  Both searches have findVarDecl's shape: *)
(* the last match of the first file that has one.                          *)
(***************************************************************************)
\* the range statements of file f: rangeStmt.X of the last that binds the
\* variable as its Value, <<>> if none
RECURSIVE LastRangeX(_, _, _)
LastRangeX(rs, f, acc) ==
    IF rs = <<>> THEN acc
    ELSE LET r == Head(rs) IN
         IF r.file = f /\ r.bind = "value"
         THEN LastRangeX(Tail(rs), f, <<r.x>>)
         ELSE LastRangeX(Tail(rs), f, acc)

RECURSIVE findRangeExpr(_, _)
findRangeExpr(rs, f) ==
    IF f > nfiles THEN <<>>
    ELSE LET r == LastRangeX(rs, f, <<>>) IN
         IF r # <<>> THEN r ELSE findRangeExpr(rs, f + 1)

RECURSIVE LastComposite(_, _, _)
LastComposite(as, f, acc) ==
    IF as = <<>> THEN acc
    ELSE LET a == Head(as) IN
         IF a.file = f /\ a.rhs # <<>> /\ a.rhs[1].kind = "CompositeLit"
         THEN LastComposite(Tail(as), f, <<a.rhs[1]>>)
         ELSE LastComposite(Tail(as), f, acc)

RECURSIVE findSliceLit(_, _)
findSliceLit(as, f) ==
    IF f > nfiles THEN <<>>
    ELSE LET r == LastComposite(as, f, <<>>) IN
         IF r # <<>> THEN r ELSE findSliceLit(as, f + 1)

\* the slice literal a range expression stands for, <<>> if none
sliceLitOf(rangeExpr) ==
    IF rangeExpr.kind = "Ident"
    THEN IF rangeExpr.obj.okind = "nil" THEN <<>>
         ELSE IF rangeExpr.obj.okind # "Var" THEN <<>>
         ELSE findSliceLit(rangeExpr.obj.assigns, 1)
    ELSE IF rangeExpr.kind = "CompositeLit" THEN <<rangeExpr>>
    ELSE <<>>

\* lines 264-266
appendIfSet(fv) == IF fv.value # <<>> THEN <<fv>> ELSE <<>>

RECURSIVE rowValues(_, _)
rowValues(elts, field) ==
    IF elts = <<>> THEN <<>>
    ELSE (IF Head(elts).kind = "CompositeLit"
          THEN appendIfSet(extractFieldValueWithPos(Head(elts), field))
          ELSE <<>>) \o rowValues(Tail(elts), field)

\* lines 255-270
valuesOfSlice(sliceLit, field) ==
    IF sliceLit = <<>> THEN <<>> ELSE rowValues(sliceLit[1].elts, field)

\* lines 215-257
valuesOfRange(rangeExpr, field) ==
    IF rangeExpr = <<>> THEN <<>>
    ELSE valuesOfSlice(sliceLitOf(rangeExpr[1]), field)

extractValuesWithPosFromRange(rangeVar, field) ==
    IF rangeVar.obj.okind = "nil" THEN <<>>
    ELSE IF rangeVar.obj.okind # "Var" THEN <<>>   \* no range statement binds it
    ELSE valuesOfRange(findRangeExpr(rangeVar.obj.ranges, 1), field)

(***************************************************************************)
(* isTestingType: typ is <<>> when TypeOf returns nil, else                *)
(* <<typ.String()>>.                                                       *)
(***************************************************************************)
\* a variant: any receiver with a type
isTestingTypeAny(expr) == expr.typ # <<>>

isTestingType(expr) ==
    IF expr.typ = <<>> THEN FALSE
    ELSE expr.typ[1] \in {"*testing.T", "*testing.B", "*testing.F"}

(***************************************************************************)
(* The callback run hands to ast.Inspect, applied to node n: the           *)
(* diagnostics it reports, as [pos, value], and what it returns.           *)
(***************************************************************************)
Out(rs) == [reports |-> rs, ret |-> TRUE]

\* a variant: the offending cases last to first
invalidCasesReversed(testCases) ==
    LET sel == SelectSeq(testCases,
                    LAMBDA tc : tc.value # <<>> /\ ~isValidSnakeCase(tc.value))
    IN [i \in 1..Len(sel) |-> sel[Len(sel) + 1 - i]]

invalidCases(testCases) ==
    SelectSeq(testCases, LAMBDA tc : tc.value # <<>> /\ ~isValidSnakeCase(tc.value))

\* a variant: without the return at lines 84-86
checkNameStrict(testName, callPos) ==
    IF ~isValidSnakeCase(testName)
    THEN Out(<<[value |-> testName, pos |-> callPos]>>)
    ELSE Out(<<>>)

\* lines 82-93
checkName(testName, callPos) ==
    IF testName = <<>> THEN Out(<<>>)
    ELSE IF ~isValidSnakeCase(testName)
    THEN Out(<<[value |-> testName, pos |-> callPos]>>)
    ELSE Out(<<>>)

\* lines 70-91, with testCases what the table of firstArg gave (nothing
\* when firstArg is no selector on an identifier)
checkArg(testCases, firstArg, callPos) ==
    IF Len(testCases) > 0 THEN Out(invalidCases(testCases))
    ELSE checkName(strVal(firstArg), callPos)

\* lines 66-70
tableOf(firstArg) ==
    IF firstArg.kind = "SelectorExpr" /\ firstArg.x.kind = "Ident"
    THEN extractValuesWithPosFromRange(firstArg.x, firstArg.sel)
    ELSE <<>>

inspectFn(n) ==
    IF n.kind # "CallExpr" THEN Out(<<>>)
    ELSE IF n.fun.kind # "SelectorExpr" THEN Out(<<>>)
    ELSE IF n.fun.sel # "Run" THEN Out(<<>>)
    ELSE IF ~isTestingType(n.fun.x) THEN Out(<<>>)
    ELSE IF Len(n.args) < 2 THEN Out(<<>>)
    ELSE checkArg(tableOf(n.args[1]), n.args[1], n.pos)

(***************************************************************************)
(* The inputs.  ast.Inspect reveals the nodes of a file one at a time; a   *)
(* node is drawn as a description (family, kinds of its parts) from which  *)
(* Node builds the syntax and the type information.  Node number k of a    *)
(* pass owns the positions from 1000*k on: statement i of a list it        *)
(* depends on starts at 1000*k + 100*i, row r of a table in that statement *)
(* at 1000*k + 100*i + 10*r, and the call itself is at 1000*k + 900.       *)
(***************************************************************************)
NValid == <<"a", "_", "1">>
NInvalid == <<"A">>
NInvalidB == <<"B">>
NEmpty == <<>>
NQuoted == <<"a", DQ>>              \* ends with a double quote
NLong == Rep("a", maxLen - 1)       \* valid, one rune more than Quote keeps

InterpLit(content, p) == Lit(Quote(content), content, p)
RawLit(content, p) == Lit(<<BQ>> \o content \o <<BQ>>, content, p)

SeqsUpTo(S, m) == UNION {[1..j -> S] : j \in 0..m}

\* the name argument as a literal
LitKinds == {"valid", "invalid", "empty", "quoted", "raw"}
MkLit(kd, p) ==
    CASE kd = "valid" -> InterpLit(NValid, p)
      [] kd = "invalid" -> InterpLit(NInvalid, p)
      [] kd = "empty" -> InterpLit(NEmpty, p)
      [] kd = "quoted" -> InterpLit(NQuoted, p)
      [] kd = "raw" -> RawLit(NValid, p)

\* the name argument as an identifier of a constant; "untyped" kinds have
\* no entry in pass.TypesInfo.Types
ConstKinds == {"valid", "invalid", "empty", "long", "untypedValid",
               "untypedInvalid", "int"}
MkConst(kd, p) ==
    CASE kd = "valid" -> IdentE("c", ConstObj("String", NValid), <<NValid>>, p)
      [] kd = "invalid" -> IdentE("c", ConstObj("String", NInvalid), <<NInvalid>>, p)
      [] kd = "empty" -> IdentE("c", ConstObj("String", NEmpty), <<NEmpty>>, p)
      [] kd = "long" -> IdentE("c", ConstObj("String", NLong), <<NLong>>, p)
      [] kd = "untypedValid" -> IdentE("c", ConstObj("String", NValid), <<>>, p)
      [] kd = "untypedInvalid" -> IdentE("c", ConstObj("String", NInvalid), <<>>, p)
      [] kd = "int" -> IdentE("c", ConstObj("Int", <<"1">>), <<>>, p)

\* right-hand sides of assignments to a string variable
RhsCore == {"valid", "invalid"}
RhsRare == {<<"other">>, <<"invalidB">>, <<"empty">>, <<"raw">>, <<"concat">>,
            <<"concatValid">>, <<"none">>, <<"invalid", "other">>, <<"other", "invalid">>,
            <<"invalid", "empty">>, <<"none", "invalid">>}
MkRhs(kd, p) ==
    CASE kd = "valid" -> <<InterpLit(NValid, p)>>
      [] kd = "invalid" -> <<InterpLit(NInvalid, p)>>
      [] kd = "invalidB" -> <<InterpLit(NInvalidB, p)>>
      [] kd = "empty" -> <<InterpLit(NEmpty, p)>>
      [] kd = "raw" -> <<RawLit(NValid, p)>>
      [] kd = "concat" -> <<OtherE("BinaryExpr", <<NInvalid \o NInvalidB>>, p)>>
      [] kd = "concatValid" -> <<OtherE("BinaryExpr", <<NValid>>, p)>>
      [] kd = "other" -> <<OtherE("CallExpr", <<>>, p)>>
      [] kd = "none" -> <<>>

\* the name argument in the other shapes eval meets
MiscKinds == {"unknown", "func", "call", "conversion", "index", "binary",
              "concatInvalid", "concatValid", "paren"}
MkMisc(kd, p) ==
    CASE kd = "unknown" -> IdentE("x", NilObj, <<>>, p)
      [] kd = "func" -> IdentE("helper", FuncObj, <<>>, p)
      [] kd = "call" -> OtherE("CallExpr", <<>>, p)
      [] kd = "conversion" -> OtherE("CallExpr", <<NInvalid>>, p)
      [] kd = "index" -> OtherE("IndexExpr", <<>>, p)
      [] kd = "binary" -> OtherE("BinaryExpr", <<>>, p)
      [] kd = "concatInvalid" -> OtherE("BinaryExpr", <<NInvalid \o NInvalidB>>, p)
      [] kd = "concatValid" -> OtherE("BinaryExpr", <<NValid>>, p)
      [] kd = "paren" -> OtherE("ParenExpr", <<>>, p)

\* rows of a table: the row at position rp
Key(nm, p) == IdentE(nm, NilObj, <<>>, p)
Want(rp) == KV(Key("want", rp + 5), InterpLit(<<"F", " ", "b">>, rp + 7), rp + 5)
RowOf(ve, rp) == CompE(<<KV(Key("name", rp + 1), ve, rp + 1), Want(rp)>>, rp)

RowCore == {"valid", "invalid", "empty"}
RowRare == {"nofield", "invalidB", "raw", "const", "call", "selector", 
            "positional", "strkey", "notrow", "wantfirst"}
MkRow(kd, rp) ==
    CASE kd = "valid" -> RowOf(InterpLit(NValid, rp + 3), rp)
      [] kd = "invalid" -> RowOf(InterpLit(NInvalid, rp + 3), rp)
      [] kd = "invalidB" -> RowOf(InterpLit(NInvalidB, rp + 3), rp)
      [] kd = "empty" -> RowOf(InterpLit(NEmpty, rp + 3), rp)
      [] kd = "raw" -> RowOf(RawLit(NValid, rp + 3), rp)
      [] kd = "const" -> RowOf(MkConst("invalid", rp + 3), rp)
      [] kd = "call" -> RowOf(OtherE("CallExpr", <<>>, rp + 3), rp)
      [] kd = "selector" ->
            RowOf(SelE(IdentE("o", VarObj(<<>>, <<>>), <<>>, rp + 3), "name",
                       <<>>, rp + 3), rp)
      [] kd = "nofield" -> CompE(<<Want(rp)>>, rp)
      [] kd = "positional" ->
            CompE(<<InterpLit(NInvalid, rp + 3), InterpLit(NInvalidB, rp + 7)>>, rp)
      [] kd = "strkey" ->
            CompE(<<KV(InterpLit(<<"n">>, rp + 1), InterpLit(NInvalid, rp + 3),
                       rp + 1)>>, rp)
      [] kd = "notrow" -> OtherE("UnaryExpr", <<>>, rp)
      [] kd = "wantfirst" ->
            CompE(<<Want(rp), KV(Key("name", rp + 1),
                                 InterpLit(NInvalid, rp + 3), rp + 1)>>, rp)

\* the table literal of statement region sb
MkTable(kds, sb) ==
    CompE([r \in 1..Len(kds) |-> MkRow(kds[r], sb + 10 * r)], sb + 9)

\* range statements that mention the loop variable: around the call or
\* apart from it, binding the variable as value or as key
RangeCore == {"encl", "apart"}
RangeRare == {<<"askey">>, <<"call">>, <<"unknown">>, <<"encl", "askey">>,
              <<"encl", "call">>}
MkRange(kd, f, sb) ==
    CASE kd = "encl" -> Range(f, "value", MkTable(<<"invalid">>, sb), TRUE)
      [] kd = "apart" -> Range(f, "value", MkTable(<<"invalidB">>, sb), FALSE)
      [] kd = "askey" -> Range(f, "key", MkTable(<<"invalidB">>, sb), TRUE)
      [] kd = "call" -> Range(f, "value", OtherE("CallExpr", <<>>, sb + 9), TRUE)
      [] kd = "unknown" ->
            Range(f, "value", IdentE("tests", NilObj, <<>>, sb + 9), TRUE)

\* right-hand sides of assignments to the ranged slice variable
SliceCore == {"tableA", "tableB"}
SliceRare == {<<"other">>, <<"none">>, <<"tableA", "other">>,
              <<"tableA", "none">>}
MkSliceRhs(kd, sb) ==
    CASE kd = "tableA" -> <<MkTable(<<"invalid">>, sb)>>
      [] kd = "tableB" -> <<MkTable(<<"invalidB">>, sb)>>
      [] kd = "other" -> <<OtherE("CallExpr", <<>>, sb)>>
      [] kd = "none" -> <<>>

\* the file of statement i of a list: all in the file of the call, or the
\* first in file 1 and the rest in file 2
FileOf(i, split, here) == IF ~split THEN here ELSE IF i = 1 THEN 1 ELSE 2

LoopVar(rs, p) == IdentE("tt", VarObj(<<>>, rs), <<>>, p)
TableArg(rs, p) == SelE(LoopVar(rs, p), "name", <<>>, p)

\* the name argument as a selector expression that is no loop variable's
SelKinds == {"deep", "unknown", "pkgValid", "pkgInvalid"}
MkSel(kd, p) ==
    CASE kd = "deep" -> SelE(SelE(LoopVar(<<>>, p), "in", <<>>, p), "name", <<>>, p)
      [] kd = "unknown" -> SelE(IdentE("tt", NilObj, <<>>, p), "name", <<>>, p)
      [] kd = "pkgValid" -> SelE(IdentE("pkg", PkgObj, <<>>, p), "Name", <<NValid>>, p)
      [] kd = "pkgInvalid" ->
            SelE(IdentE("pkg", PkgObj, <<>>, p), "Name", <<NInvalid>>, p)

\* descriptions
D(fm, kd, kds, sp, ty, nm, na, d) ==
    [fam |-> fm, kind |-> kd, kinds |-> kds, split |-> sp, typ |-> ty,
     method |-> nm, nargs |-> na, depth |-> d]
Sub(fm, kd, kds, sp, d) == D(fm, kd, kds, sp, <<"*testing.T">>, "Run", 2, d)

Lists(fm, Core, Rare) ==
    {Sub(fm, "", kds, FALSE, 1) : kds \in SeqsUpTo(Core, MaxStmts)}
        \cup {Sub(fm, "", kds, FALSE, 1) : kds \in Rare}
        \cup (IF nfiles >= 2
              THEN {Sub(fm, "", kds, TRUE, 1) : kds \in [1..2 -> Core]}
              ELSE {})

RecvTypes == {<<"*testing.T">>, <<"*testing.B">>, <<"*testing.F">>,
              <<"*testlintdata.Runner">>, <<"testing.T">>, <<>>}
MethodNames == {"Run", "run", "Parallel"}
ProbeKinds == {"lit", "table"}

\* the name argument of a probe: one that draws a diagnostic from a
\* recognised call
MkProbe(kd, here, base) ==
    IF kd = "lit" THEN InterpLit(NInvalid, base + 950)
    ELSE TableArg(<<MkRange("encl", here, base + 100)>>, base + 950)

\* what can come after a node of depth above (0 at the start of a file)
Descs(above) ==
    {Sub("lit", kd, <<>>, FALSE, 1) : kd \in LitKinds}
        \cup {Sub("const", kd, <<>>, FALSE, 1) : kd \in ConstKinds}
        \cup {Sub("misc", kd, <<>>, FALSE, 1) : kd \in MiscKinds}
        \cup {Sub("sel", kd, <<>>, FALSE, 1) : kd \in SelKinds}
        \cup Lists("var", RhsCore, RhsRare)
        \cup Lists("ranges", RangeCore, RangeRare)
        \cup Lists("slice", SliceCore, SliceRare)
        \cup {Sub("table", "", kds, FALSE, 1) : kds \in SeqsUpTo(RowCore, MaxRows)}
        \cup {Sub("table", "", <<kd>>, FALSE, 1) : kd \in RowRare}
        \cup {D("shape", kd, <<>>, FALSE, ty, nm, 2, 1) :
                kd \in ProbeKinds, ty \in RecvTypes, nm \in MethodNames}
        \cup {D("shape", kd, <<>>, FALSE, ty, "Run", na, 1) :
                kd \in ProbeKinds, ty \in {<<"*testing.T">>, <<"testing.T">>},
                na \in 0..3}
        \cup {D("plaincall", kd, <<>>, FALSE, <<>>, "Run", 2, 1) : kd \in ProbeKinds}
        \cup {D("other", "", <<>>, FALSE, <<>>, "", 0, 1)}
        \cup {Sub("nested", kd, <<>>, FALSE, d) :
                kd \in ProbeKinds \cup {"valid"}, d \in 2..(above + 1)}

\* the name argument a description stands for
NameArg(ds, here, base) ==
    LET p == base + 950
        stmts(Mk(_, _)) ==
            [i \in 1..Len(ds.kinds) |->
                Assign(FileOf(i, ds.split, here), Mk(ds.kinds[i], base + 100 * i))]
    IN CASE ds.fam = "lit" -> MkLit(ds.kind, p)
         [] ds.fam = "const" -> MkConst(ds.kind, p)
         [] ds.fam = "misc" -> MkMisc(ds.kind, p)
         [] ds.fam = "sel" -> MkSel(ds.kind, p)
         [] ds.fam = "var" -> IdentE("x", VarObj(stmts(MkRhs), <<>>), <<>>, p)
         [] ds.fam = "ranges" ->
                TableArg([i \in 1..Len(ds.kinds) |->
                            MkRange(ds.kinds[i], FileOf(i, ds.split, here),
                                    base + 100 * i)], p)
         [] ds.fam = "slice" ->
                TableArg(<<Range(here, "value",
                                 IdentE("tests", VarObj(stmts(MkSliceRhs), <<>>),
                                        <<>>, base + 9),
                                 TRUE)>>, p)
         [] ds.fam = "table" ->
                TableArg(<<Range(here, "value", MkTable(ds.kinds, base + 100),
                                 TRUE)>>, p)
         [] ds.fam = "nested" /\ ds.kind = "valid" -> MkLit("valid", p)
         [] OTHER -> MkProbe(ds.kind, here, base)

Recv(ty, p) == [kind |-> "Ident", typ |-> ty, pos |-> p]
Body(p) == OtherE("FuncLit", <<>>, p)

\* node number k of the pass, in file number here, from its description
Node(ds, k, here) ==
    LET base == 1000 * k
        arg == NameArg(ds, here, base)
        args == SubSeq(<<arg, Body(base + 970), Body(base + 980)>>, 1, ds.nargs)
    IN IF ds.fam = "other"
       THEN [kind |-> "FuncLit", pos |-> base + 900, depth |-> ds.depth]
       ELSE [kind |-> "CallExpr",
             fun |-> IF ds.fam = "plaincall"
                     THEN IdentE("Run", FuncObj, <<>>, base + 900)
                     ELSE SelE(Recv(ds.typ, base + 900), ds.method, <<>>,
                               base + 900),
             args |-> args,
             pos |-> base + 900,
             depth |-> ds.depth]

(***************************************************************************)
(* run.  The loop over pass.Files, and ast.Inspect's walk of a test file:  *)
(* nodes come in document order; a node below one for which the callback   *)
(* returned false is passed over without a call.                           *)
(***************************************************************************)
TestSuffix == <<"_", "t", "e", "s", "t", ".", "g", "o">>

FileNames == {<<"a">> \o TestSuffix,
              <<"a", ".", "g", "o">>,
              <<"a", "t", "e", "s", "t", ".", "g", "o">>,
              <<"a">> \o TestSuffix \o <<"x">>}

\* a variant: any .go file
isTestFileAnyGo(nm) == HasSuffix(nm, <<".", "g", "o">>)

\* line 32: strings.HasSuffix(name, "_test.go")
isTestFile(nm) == HasSuffix(nm, TestSuffix)

\* a diagnostic as pass.Reportf receives it, with the number of the node
\* and the name of the file whose callback reported it
Reported(rs, k, nm) ==
    [i \in 1..Len(rs) |->
        [pos |-> rs[i].pos, value |-> rs[i].value, at |-> k, file |-> nm]]

Init ==
    /\ input = <<>> /\ verdict = <<>>
    /\ pc = "files"
    /\ nfiles = MaxFiles
    /\ fi = 0
    /\ fname = <<>>
    /\ visited = 0
    /\ cur = <<>> /\ last = 0 /\ called = FALSE /\ ret = TRUE /\ prune = 0
    /\ diags = <<>>
    /\ result = <<>>

\* lines 30-34: the next file of pass.Files is no test file
SkipFile ==
    /\ pc = "files" /\ fi < nfiles
    /\ \E nm \in FileNames :
        /\ ~isTestFile(nm)
        /\ fname' = nm
    /\ fi' = fi + 1
    /\ UNCHANGED <<input, verdict, pc, nfiles, visited, cur, last, called, ret,
                   prune, diags, result>>

\* lines 30-36: the next file is a test file; ast.Inspect starts
EnterFile ==
    /\ pc = "files" /\ fi < nfiles
    /\ \E nm \in FileNames :
        /\ isTestFile(nm)
        /\ fname' = nm
    /\ pc' = "walk"
    /\ last' = 0 /\ prune' = 0
    /\ UNCHANGED <<input, verdict, nfiles, fi, visited, cur, called, ret, diags,
                   result>>

\* ast.Inspect takes what the callback returned for a node of depth d
Invoke(out, d) ==
    /\ ret' = out.ret
    /\ prune' = IF out.ret THEN 0 ELSE d
    /\ diags' = diags \o Reported(out.reports, visited + 1, fname)

\* lines 36-94: ast.Inspect reaches the next node of the file and, unless
\* the node lies below one it was told not to descend into, calls the
\* callback on it
Inspect ==
    /\ pc = "walk" /\ visited < MaxNodes
    /\ \E ds \in Descs(last) :
        /\ cur' = <<Node(ds, visited + 1, fi + 1)>>
        /\ visited' = visited + 1
        /\ called' = ~(prune > 0 /\ cur'[1].depth > prune)
        /\ IF called'
           THEN Invoke(inspectFn(cur'[1]), cur'[1].depth)
           ELSE UNCHANGED <<ret, prune, diags>>
    /\ pc' = "visit"
    /\ UNCHANGED <<input, verdict, nfiles, fi, fname, last, result>>

\* the callback has returned; ast.Inspect moves on
Advance ==
    /\ pc = "visit"
    /\ pc' = "walk"
    /\ last' = cur[1].depth
    /\ cur' = <<>> /\ called' = FALSE /\ ret' = TRUE
    /\ UNCHANGED <<input, verdict, nfiles, fi, fname, visited, prune, diags,
                   result>>

\* ast.Inspect has walked the whole file
LeaveFile ==
    /\ pc = "walk"
    /\ pc' = "files"
    /\ fi' = fi + 1
    /\ UNCHANGED <<input, verdict, nfiles, fname, visited, cur, last, called,
                   ret, prune, diags, result>>

\* line 97: return nil, nil
Return ==
    /\ pc = "files" /\ fi = nfiles
    /\ pc' = "done"
    /\ result' = <<[val |-> "nil", err |-> "nil"]>>
    /\ UNCHANGED <<input, verdict, nfiles, fi, fname, visited, cur, last,
                   called, ret, prune, diags>>

Next == SkipFile \/ EnterFile \/ Inspect \/ Advance \/ LeaveFile \/ Return

Spec == Init /\ [][Next]_vars

(***************************************************************************)
(* The validator on its own: every string over Alphabet up to MaxLen.      *)
(***************************************************************************)
Alphabet == {"a", "z", "0", "_", "A", "É", "é", " ", "\n"}

Strings(k) == UNION {[1..m -> Alphabet] : m \in 0..k}

\* the test harness calls the validator once on the chosen string
Validate ==
    /\ verdict = <<>>
    /\ verdict' = <<isValidSnakeCase(input)>>
    /\ UNCHANGED <<input, pc, nfiles, fi, fname, visited, cur, last, called,
                   ret, prune, diags, result>>

InitValid ==
    /\ input \in Strings(MaxLen)
    /\ verdict = <<>>
    /\ pc = "done" /\ nfiles = 0 /\ fi = 0 /\ fname = <<>> /\ visited = 0
    /\ cur = <<>> /\ last = 0 /\ called = FALSE /\ ret = TRUE /\ prune = 0
    /\ diags = <<>> /\ result = <<>>

NextValid == Validate

SpecValid == InitValid /\ [][NextValid]_vars

(***************************************************************************)
(* The grammar of a valid name: one or more non-empty runs of [a-z0-9]     *)
(* joined by single underscores.                                           *)
(***************************************************************************)
InGrammar(s) ==
    /\ Len(s) >= 1
    /\ \A i \in 1..Len(s) : s[i] \in AsciiLower \cup AsciiDigit \cup {"_"}
    /\ s[1] # "_"
    /\ s[Len(s)] # "_"
    /\ \A i \in 1..(Len(s) - 1) : ~(s[i] = "_" /\ s[i + 1] = "_")

\* C1.  isValidSnakeCase(s) is true exactly when s is in the grammar: it is
\* false of the empty string, of a string with a leading, trailing or
\* doubled underscore, and of a string with an upper-case letter, a space
\* or any other rune.
C1_ValidatorGrammar ==
    verdict # <<>> => (verdict[1] <=> InGrammar(input))

\* a doubled underscore between two runs has been rejected
C1_Witness ==
    /\ verdict = <<FALSE>>
    /\ input = <<"a", "_", "_", "z">>

(***************************************************************************)
(* Vocabulary of the statements about run.  They are read in the states    *)
(* where the callback has just run on cur.                                 *)
(***************************************************************************)
\* what the callback reported for cur
Emitted == SelectSeq(diags, LAMBDA d : d.at = visited)
EmittedValues == [i \in 1..Len(Emitted) |-> Emitted[i].value]
EmittedReports ==
    [i \in 1..Len(Emitted) |-> [pos |-> Emitted[i].pos, value |-> Emitted[i].value]]

TestingTypes == {<<"*testing.T">>, <<"*testing.B">>, <<"*testing.F">>}

\* n is a call x.Run(name, f, ...) with x of one of the three testing types
Recognised(n) ==
    /\ n.kind = "CallExpr"
    /\ n.fun.kind = "SelectorExpr"
    /\ n.fun.sel = "Run"
    /\ n.fun.x.typ \in TestingTypes
    /\ Len(n.args) >= 2

SubTest == pc = "visit" /\ Recognised(cur[1])
Name == cur[1].args[1]

\* what a name that should be checked as v owes: one report when v is no
\* valid name, none when it is
Owed(v) == IF isValidSnakeCase(v) THEN <<>> ELSE <<v>>

\* C2.  run reports on a call only if it is a member access named Run on
\* a receiver whose static type is *testing.T, *testing.B or *testing.F,
\* with at least two arguments: for any other node, whatever its name
\* argument is, the callback reports nothing.
C2_OnlyRecognisedCalls ==
    (pc = "visit" /\ ~Recognised(cur[1])) => Emitted = <<>>

\* runner.Run("A", f) on a receiver of another type has been passed over
C2_Witness ==
    /\ pc = "visit"
    /\ cur[1].kind = "CallExpr"
    /\ cur[1].fun.kind = "SelectorExpr"
    /\ cur[1].fun.sel = "Run"
    /\ cur[1].fun.x.typ = <<"*testlintdata.Runner">>
    /\ Len(cur[1].args) = 2
    /\ cur[1].args[1].kind = "BasicLit"
    /\ cur[1].args[1].tv = <<NInvalid>>
    /\ Emitted = <<>>

(***************************************************************************)
(* Tables.  The value of an expression as the language defines it: the     *)
(* content of a string literal, the value of a string constant; <<>> for   *)
(* an expression that has none.                                            *)
(***************************************************************************)
Content(e) ==
    IF e.kind = "BasicLit" THEN e.tv
    ELSE IF e.kind = "Ident" /\ e.obj.okind = "Const" /\ e.obj.ckind = "String"
    THEN <<e.obj.val>>
    ELSE <<>>

\* the value expressions of the elements of row keyed by the identifier field
FieldValuesOf(row, field) ==
    IF row.kind # "CompositeLit" THEN <<>>
    ELSE LET keyed == SelectSeq(row.elts,
                        LAMBDA e : /\ e.kind = "KeyValueExpr"
                                   /\ e.key.kind = "Ident"
                                   /\ e.key.name = field)
         IN [i \in 1..Len(keyed) |-> keyed[i].value]

\* the name is row.field of the loop variable of exactly one range
\* statement, which is around the call and ranges over a literal
InTableLoop(arg) ==
    /\ arg.kind = "SelectorExpr"
    /\ arg.x.kind = "Ident"
    /\ arg.x.obj.okind = "Var"
    /\ Len(arg.x.obj.ranges) = 1
    /\ arg.x.obj.ranges[1].bind = "value"
    /\ arg.x.obj.ranges[1].contains
    /\ arg.x.obj.ranges[1].x.kind = "CompositeLit"

RECURSIVE OwedByRows(_, _)
OwedByRows(rows, field) ==
    IF rows = <<>> THEN <<>>
    ELSE LET vs == FieldValuesOf(rows[1], field)
             c == IF vs = <<>> THEN <<>> ELSE Content(vs[1])
         IN (IF c # <<>> /\ ~isValidSnakeCase(c[1])
             THEN <<[pos |-> vs[1].pos, value |-> c[1]]>>
             ELSE <<>>) \o OwedByRows(Tail(rows), field)

\* C3.  For a recognised call t.Run(row.name, f) in a range loop over a
\* literal of rows, run reports exactly once for each row whose name value
\* is no valid name and not at all for a row whose name value is valid, that
\* lacks the field or whose value does not resolve.
C3_OnePerInvalidRow ==
    (SubTest /\ InTableLoop(Name)) =>
        EmittedReports = OwedByRows(Name.x.obj.ranges[1].x.elts, Name.sel)

\* C4.  For a recognised call whose name is an identifier of a declared
\* string constant, or of a variable assigned exactly once, to a string
\* literal, the name is the constant's value or the literal's text, and run
\* reports if and only if that value is no valid name.  (Stated of the
\* values that are not empty; the empty name is the subject of C15.)
C4_ConstantOrSingleAssignment ==
    /\ (SubTest /\ Name.kind = "Ident" /\ Name.obj.okind = "Const"
            /\ Name.obj.ckind = "String" /\ Name.obj.val # <<>>)
        => EmittedValues = Owed(Name.obj.val)
    /\ (SubTest /\ Name.kind = "Ident" /\ Name.obj.okind = "Var"
            /\ Len(Name.obj.assigns) = 1
            /\ Name.obj.assigns[1].rhs # <<>>
            /\ Name.obj.assigns[1].rhs[1].kind = "BasicLit"
            /\ Name.obj.assigns[1].rhs[1].tv[1] # <<>>)
        => EmittedValues = Owed(Name.obj.assigns[1].rhs[1].tv[1])

\* C5.  For a recognised call whose name is a variable with more than one
\* assignment in the searched files, the name is not resolved and run
\* reports nothing, whatever the assigned values are.
C5_MultipleAssignmentsUnresolved ==
    (SubTest /\ Name.kind = "Ident" /\ Name.obj.okind = "Var"
            /\ Len(Name.obj.assigns) > 1)
        => Emitted = <<>>

\* C6.  For a recognised call whose name is a string literal, interpreted
\* or raw, the value validated and reported is the literal's content without
\* its delimiters.  (Stated of the literals that are not empty; the empty
\* name is the subject of C15.)
C6_LiteralContent ==
    (SubTest /\ Name.kind = "BasicLit" /\ Name.tv[1] # <<>>)
        => EmittedValues = Owed(Name.tv[1])

\* the name is no selector and nothing resolves it: a call of a function,
\* an index expression or a binary operation that is no constant, an
\* identifier that is none of a constant and a variable, a variable with no
\* assignment of a string literal
HasLiteral(as) ==
    \E i \in 1..Len(as) : as[i].rhs # <<>> /\ as[i].rhs[1].kind = "BasicLit"

Unresolvable(arg) ==
    \/ arg.kind \in {"CallExpr", "IndexExpr", "BinaryExpr", "ParenExpr"}
            /\ arg.tv = <<>>
    \/ arg.kind = "Ident" /\ arg.tv = <<>>
            /\ arg.obj.okind \in {"nil", "Func", "PkgName"}
    \/ arg.kind = "Ident" /\ arg.obj.okind = "Var" /\ ~HasLiteral(arg.obj.assigns)

\* C7.  For a recognised call whose name is no selector and cannot be
\* resolved, run reports nothing, raises no error (it returns nil, nil at
\* the end) and goes on with the walk: the callback returns true and
\* ast.Inspect descends and moves on.
C7_UnresolvedIsSkipped ==
    /\ (SubTest /\ Unresolvable(Name)) => (Emitted = <<>> /\ ret /\ prune = 0)
    /\ result # <<>> => result = <<[val |-> "nil", err |-> "nil"]>>

\* t.Run(names[i], f), the second node of a walk, has been passed over
C7_Witness ==
    /\ SubTest
    /\ Name.kind = "IndexExpr"
    /\ visited = 2
    /\ Emitted = <<>>
    /\ ret

\* C8.  For a recognised call whose name is a selector x.field for which
\* the table gives no values (no range statement, a ranged collection that
\* is no literal, x no loop variable at all as in pkg.Name), run gives the
\* call up and reports nothing: the selector is never resolved directly.
C8_SelectorNeverDirect ==
    (SubTest /\ Name.kind = "SelectorExpr" /\ Len(tableOf(Name)) = 0)
        => Emitted = <<>>

IsTestFileName(nm) ==
    /\ Len(nm) >= 8
    /\ SubSeq(nm, Len(nm) - 7, Len(nm)) = <<"_", "t", "e", "s", "t", ".", "g", "o">>

\* C9.  run reports only on calls in files whose name ends with _test.go:
\* no report names another file and no other file is walked; and every
\* node of a test file that the walk reaches, nested in the body of another
\* sub-test or not, is handed to the callback.
C9_TestFilesOnly ==
    /\ \A i \in 1..Len(diags) : IsTestFileName(diags[i].file)
    /\ pc \in {"walk", "visit"} => IsTestFileName(fname)
    /\ pc = "visit" => called

\* a call nested in a sub-test's body, in the second file of the pass, has
\* been reported
C9_Witness ==
    /\ pc = "visit"
    /\ fi = 1
    /\ cur[1].depth = 2
    /\ called
    /\ Emitted # <<>>

\* the positions of the values keyed field in the rows of the tables that
\* the range statements of the loop variable of arg reach
RowValuePos(tbl, field) ==
    IF tbl.kind # "CompositeLit" THEN {}
    ELSE UNION {{FieldValuesOf(tbl.elts[r], field)[j].pos :
                    j \in 1..Len(FieldValuesOf(tbl.elts[r], field))} :
                r \in 1..Len(tbl.elts)}

SliceValuePos(as, field) ==
    UNION {IF as[i].rhs = <<>> THEN {} ELSE RowValuePos(as[i].rhs[1], field) :
            i \in 1..Len(as)}

RangeValuePos(x, field) ==
    IF x.kind = "Ident" /\ x.obj.okind = "Var"
    THEN SliceValuePos(x.obj.assigns, field)
    ELSE RowValuePos(x, field)

FieldValuePos(arg) ==
    IF arg.kind = "SelectorExpr" /\ arg.x.kind = "Ident" /\ arg.x.obj.okind = "Var"
    THEN UNION {RangeValuePos(arg.x.obj.ranges[i].x, arg.sel) :
                    i \in 1..Len(arg.x.obj.ranges)}
    ELSE {}

\* C10.  Every report is anchored at the field-value expression of a row
\* when the name came from a table, and at the call expression when the
\* name was resolved directly.
C10_Anchors ==
    SubTest =>
        \A i \in 1..Len(Emitted) :
            IF FieldValuePos(Name) # {}
            THEN Emitted[i].pos \in FieldValuePos(Name)
            ELSE Emitted[i].pos = cur[1].pos

\* the second row of a table has been reported at its name value, which is
\* neither the row nor the call
C10_Witness ==
    /\ SubTest
    /\ InTableLoop(Name)
    /\ Len(Name.x.obj.ranges[1].x.elts) = 2
    /\ Len(Emitted) = 1
    /\ Emitted[1].pos = Name.x.obj.ranges[1].x.elts[2].elts[1].value.pos
    /\ Emitted[1].pos # Name.x.obj.ranges[1].x.elts[2].pos
    /\ Emitted[1].pos # cur[1].pos

\* C11.  The reports come in the order of the walk: those of a node before
\* those of every node the walk reaches later (an outer call before the
\* calls nested in its body), and those of one table in the order of its
\* rows, each row further on in the literal than the one before.
C11_DocumentOrder ==
    \A i \in 1..Len(diags) : \A j \in 1..Len(diags) :
        i < j => /\ diags[i].at <= diags[j].at
                 /\ diags[i].at = diags[j].at => diags[i].pos < diags[j].pos

\* a call has been reported, then both rows of the table of the call after
\* it
C11_Witness ==
    /\ pc = "visit"
    /\ Len(diags) = 3
    /\ diags[1].at = 1
    /\ Len(Emitted) = 2
    /\ InTableLoop(Name)

\* the positions of the values keyed field in the tables of the range
\* statements that bind the loop variable of arg as their element and
\* contain the call
EnclosingValuePos(arg) ==
    UNION {IF arg.x.obj.ranges[i].bind = "value" /\ arg.x.obj.ranges[i].contains
           THEN RangeValuePos(arg.x.obj.ranges[i].x, arg.sel)
           ELSE {} :
           i \in 1..Len(arg.x.obj.ranges)}

\* C12.  For a call t.Run(v.field, f) the table comes only from a range
\* statement that binds v as its element and contains the call: every
\* report is at a value of such a table, and when no range statement that
\* binds v contains the call there is no table and nothing is reported.
C12_OnlyEnclosingRange ==
    (SubTest /\ Name.kind = "SelectorExpr" /\ Name.x.kind = "Ident"
            /\ Name.x.obj.okind = "Var")
        => \A i \in 1..Len(Emitted) : Emitted[i].pos \in EnclosingValuePos(Name)

\* the name is row.field of the loop variable of one range statement
\* around the call that ranges over a variable
InSliceLoop(arg) ==
    /\ arg.kind = "SelectorExpr"
    /\ arg.x.kind = "Ident"
    /\ arg.x.obj.okind = "Var"
    /\ Len(arg.x.obj.ranges) = 1
    /\ arg.x.obj.ranges[1].bind = "value"
    /\ arg.x.obj.ranges[1].contains
    /\ arg.x.obj.ranges[1].x.kind = "Ident"
    /\ arg.x.obj.ranges[1].x.obj.okind = "Var"

\* as is a single assignment, of a collection literal
SingleLiteralAssignment(as) ==
    /\ Len(as) = 1
    /\ as[1].rhs # <<>>
    /\ as[1].rhs[1].kind = "CompositeLit"

\* C13.  When the range statement ranges over an identifier, the table is
\* found only if the identifier has a single assignment, of a collection
\* literal: when it is assigned more than once, or its assignment is of
\* something else, there are no values and nothing is reported.
C13_SingleSliceAssignment ==
    (SubTest /\ InSliceLoop(Name)
            /\ ~SingleLiteralAssignment(Name.x.obj.ranges[1].x.obj.assigns))
        => Emitted = <<>>

\* C14.  A variable whose only assignment is a string expression that
\* folds to a constant (a concatenation of two string literals) resolves to
\* the folded value when it is the name of a recognised call: run reports
\* exactly when the folded value is no valid name.
C14_FoldedAssignment ==
    (SubTest /\ Name.kind = "Ident" /\ Name.obj.okind = "Var"
            /\ Len(Name.obj.assigns) = 1
            /\ Name.obj.assigns[1].rhs # <<>>
            /\ Name.obj.assigns[1].rhs[1].kind = "BinaryExpr"
            /\ Name.obj.assigns[1].rhs[1].tv # <<>>)
        => EmittedValues = Owed(Name.obj.assigns[1].rhs[1].tv[1])

\* e is the empty string literal
IsEmptyLiteral(e) == e.kind = "BasicLit" /\ e.tv = <<NEmpty>>

\* C15.  An empty string literal as the name of a recognised call, given
\* directly or as the name of a table row, is a resolved value: it is
\* validated, the validator rejects it, and run reports it instead of
\* skipping the call or the row.
C15_EmptyNameReported ==
    /\ (SubTest /\ IsEmptyLiteral(Name)) => EmittedValues = <<NEmpty>>
    /\ (SubTest /\ InTableLoop(Name)) =>
        \A r \in 1..Len(Name.x.obj.ranges[1].x.elts) :
            LET vs == FieldValuesOf(Name.x.obj.ranges[1].x.elts[r], Name.sel)
            IN (vs # <<>> /\ IsEmptyLiteral(vs[1])) =>
                    \E i \in 1..Len(Emitted) :
                        /\ Emitted[i].pos = vs[1].pos
                        /\ Emitted[i].value = NEmpty

====
